---- MODULE Spec2Model ----
(***************************************************************************)
(* Model of the UVM toolchain: the assembler (src/assembler.py) that packs *)
(* (mnemonic, operand) requests into bytes, and the stack interpreter      *)
(* (src/interpreter.py) that decodes and executes those bytes.             *)
(*                                                                         *)
(* Representation notes.                                                   *)
(*  - Python sequences are 0-based; a byte buffer is a TLA+ sequence and   *)
(*    program[i] is written ByteAt(program, i).                            *)
(*  - data_memory is [0] * 65536.  It is kept as a record of its length    *)
(*    (size) and the finite map of the words assigned so far (words);      *)
(*    every word not in the map still holds the initial 0.                 *)
(*  - The stack is a deque used at its right end: the top is the last      *)
(*    element of the sequence.                                             *)
(***************************************************************************)
EXTENDS Integers, Sequences, FiniteSets, TLC

\* ------------------------------------------------------------------ bounds
MaxInstr  == 3   \* longest generic request list given to the assembler
MaxChunks == 3   \* number of raw byte chunks in a foreign binary file
MaxRuns   == 2   \* how many times run() is invoked on one engine

\* ------------------------------------------------------- bit arithmetic
\* Recursive functions rather than operators: their arguments are values.
BitAnd[a \in Nat, b \in Nat] ==
    IF a = 0 \/ b = 0 THEN 0
    ELSE (a % 2) * (b % 2) + 2 * BitAnd[a \div 2, b \div 2]

BitOr[a \in Nat, b \in Nat] ==
    IF a = 0 THEN b
    ELSE IF b = 0 THEN a
    ELSE (IF (a % 2) + (b % 2) > 0 THEN 1 ELSE 0) + 2 * BitOr[a \div 2, b \div 2]

Shl(a, n) == a * (2 ^ n)
Shr(a, n) == a \div (2 ^ n)

ByteAt(buf, i) == buf[i + 1]

\* ------------------------------------------------------------- assembler
\* Assembler.__init__: the opcode table.
Mnemonics == {"load_const", "read_mem", "write_mem", "sqrt"}
opcodes == [op \in Mnemonics |->
              CASE op = "load_const" -> 4
                [] op = "read_mem"   -> 7
                [] op = "write_mem"  -> 2
                [] op = "sqrt"       -> 1]

\* Outcomes of assemble_instruction: the bytes returned, the ValueError
\* raised, or the implicit None when the loop ends without a return.
Bytes(bs)  == [kind |-> "bytes", bytes |-> bs]
ValueError == [kind |-> "ValueError", bytes |-> << >>]
NoneResult == [kind |-> "None", bytes |-> << >>]

TwoByte(opcode, value) ==
    Bytes(<< BitOr[Shl(opcode, 5), BitAnd[Shr(value, 8), 31]],
             BitAnd[value, 255] >>)

AsmLoadConst(value) ==
    IF value < 0 \/ value > 8191 THEN ValueError
    ELSE TwoByte(opcodes["load_const"], value)

\* Variant: the 13-bit bound of load_const copied into read_mem.
AsmReadMemWide(value) ==
    IF value < 0 \/ value > 8191 THEN ValueError
    ELSE TwoByte(opcodes["read_mem"], value)

AsmReadMem(value) ==
    IF value < 0 \/ value > 2047 THEN ValueError
    ELSE TwoByte(opcodes["read_mem"], value)

AsmWriteMem(value) ==
    IF value < 0 \/ value > 2047 THEN ValueError
    ELSE TwoByte(opcodes["write_mem"], value)

\* Variant: the pad byte is not emitted.
AsmSqrtNoPad(value) ==
    IF value < 0 \/ value > 1073741823 THEN ValueError
    ELSE Bytes(<< BitOr[Shl(opcodes["sqrt"], 5), BitAnd[Shr(value, 24), 31]],
                  BitAnd[Shr(value, 16), 255],
                  BitAnd[Shr(value, 8), 255],
                  BitAnd[value, 255] >>)

AsmSqrt(value) ==
    IF value < 0 \/ value > 1073741823 THEN ValueError
    ELSE Bytes(<< BitOr[Shl(opcodes["sqrt"], 5), BitAnd[Shr(value, 24), 31]],
                  BitAnd[Shr(value, 16), 255],
                  BitAnd[Shr(value, 8), 255],
                  BitAnd[value, 255],
                  0 >>)

\* An instruction is a single-key mapping {op: value}.
assemble_instruction(instruction) ==
    LET op == instruction.op
        value == instruction.value
    IN  IF op \in DOMAIN opcodes
        THEN CASE op = "load_const" -> AsmLoadConst(value)
               [] op = "read_mem"   -> AsmReadMem(value)
               [] op = "write_mem"  -> AsmWriteMem(value)
               [] op = "sqrt"       -> AsmSqrt(value)
        ELSE NoneResult

\* Variant of the loop: an instruction that gave None is skipped.
RECURSIVE AssembleLoopSkipNone(_, _, _)
AssembleLoopSkipNone(prog, i, binary_code) ==
    IF i > Len(prog) THEN [ok |-> TRUE, binary_code |-> binary_code]
    ELSE LET binary == assemble_instruction(prog[i])
         IN  IF binary.kind = "bytes"
             THEN AssembleLoopSkipNone(prog, i + 1, binary_code \o binary.bytes)
             ELSE IF binary.kind = "None"
             THEN AssembleLoopSkipNone(prog, i + 1, binary_code)
             ELSE [ok |-> FALSE, binary_code |-> binary_code]

\* The loop of assemble: binary_code grows by each instruction's bytes; a
\* ValueError, or the TypeError of `binary_code += None`, is caught and
\* assemble returns False before the file is opened.
RECURSIVE AssembleLoop(_, _, _)
AssembleLoop(prog, i, binary_code) ==
    IF i > Len(prog) THEN [ok |-> TRUE, binary_code |-> binary_code]
    ELSE LET binary == assemble_instruction(prog[i])
         IN  IF binary.kind = "bytes"
             THEN AssembleLoop(prog, i + 1, binary_code \o binary.bytes)
             ELSE [ok |-> FALSE, binary_code |-> binary_code]

NoFile == [written |-> FALSE, bytes |-> << >>]
File(bs) == [written |-> TRUE, bytes |-> bs]

\* Variant: the bytes gathered before the failure are still written.
AssembleOutcomePartial(prog, file) ==
    LET r == AssembleLoop(prog, 1, << >>)
    IN  IF r.ok THEN [file |-> File(r.binary_code), ret |-> "True"]
        ELSE [file |-> File(r.binary_code), ret |-> "False"]

\* What assemble leaves on disk and returns.
AssembleOutcome(prog, file) ==
    LET r == AssembleLoop(prog, 1, << >>)
    IN  IF r.ok THEN [file |-> File(r.binary_code), ret |-> "True"]
        ELSE [file |-> file, ret |-> "False"]

\* ----------------------------------------------------------- interpreter
MemSize == 65536

\* UVMInterpreter.__init__: [0] * 65536.
InitMemory == [size |-> MemSize, words |-> [a \in {} |-> 0]]

MemAt(mem, a) == IF a \in DOMAIN mem.words THEN mem.words[a] ELSE 0

\* data_memory[a] = v : item assignment, the list keeps its length.
MemSet(mem, a, v) ==
    [mem EXCEPT !.words = [x \in (DOMAIN mem.words) \cup {a} |->
                              IF x = a THEN v ELSE mem.words[x]]]

\* decode_instruction returns (opcode, operand) or (None, None).
NoneNone == [none |-> TRUE, opcode |-> 0, operand |-> 0]
Decoded(opcode, operand) == [none |-> FALSE, opcode |-> opcode, operand |-> operand]

\* Variant: the opcode bits are not masked off the first byte.
DecodeTwoByteNoMask(prog, p, opcode) ==
    IF p + 2 > Len(prog) THEN NoneNone
    ELSE LET first_byte  == ByteAt(prog, p)
             second_byte == ByteAt(prog, p + 1)
         IN  Decoded(opcode, BitOr[Shl(first_byte, 8), second_byte])

\* Variant: the high operand bits are shifted by 9 instead of 8.
DecodeTwoByteShift9(prog, p, opcode) ==
    IF p + 2 > Len(prog) THEN NoneNone
    ELSE LET first_byte  == ByteAt(prog, p)
             second_byte == ByteAt(prog, p + 1)
         IN  Decoded(opcode, BitOr[Shl(BitAnd[first_byte, 31], 9), second_byte])

\* The three 2-byte branches (load_const, read_mem, write_mem) are the same
\* code with a different returned opcode.
DecodeTwoByte(prog, p, opcode) ==
    IF p + 2 > Len(prog) THEN NoneNone
    ELSE LET first_byte  == ByteAt(prog, p)
             second_byte == ByteAt(prog, p + 1)
         IN  Decoded(opcode, BitOr[Shl(BitAnd[first_byte, 31], 8), second_byte])

\* Variant: only the four bytes that carry data are required.
DecodeSqrtShort(prog, p) ==
    IF p + 4 > Len(prog) THEN NoneNone
    ELSE LET b1 == ByteAt(prog, p)
             b2 == ByteAt(prog, p + 1)
             b3 == ByteAt(prog, p + 2)
             b4 == ByteAt(prog, p + 3)
         IN  Decoded(1, BitOr[BitOr[BitOr[Shl(BitAnd[b1, 31], 24), Shl(b2, 16)],
                                    Shl(b3, 8)], b4])

DecodeSqrt(prog, p) ==
    IF p + 5 > Len(prog) THEN NoneNone
    ELSE LET b1 == ByteAt(prog, p)
             b2 == ByteAt(prog, p + 1)
             b3 == ByteAt(prog, p + 2)
             b4 == ByteAt(prog, p + 3)
         IN  Decoded(1, BitOr[BitOr[BitOr[Shl(BitAnd[b1, 31], 24), Shl(b2, 16)],
                                    Shl(b3, 8)], b4])

decode_instruction(prog, p) ==
    IF p >= Len(prog) THEN NoneNone
    ELSE LET first_byte == ByteAt(prog, p)
             opcode == BitAnd[Shr(first_byte, 5), 7]
         IN  CASE opcode = 4 -> DecodeTwoByte(prog, p, 4)
               [] opcode = 7 -> DecodeTwoByte(prog, p, 7)
               [] opcode = 2 -> DecodeTwoByte(prog, p, 2)
               [] opcode = 1 -> DecodeSqrt(prog, p)
               [] OTHER      -> NoneNone

\* int(math.sqrt(value)): for the values the engine can hold (below 2^52)
\* the double is exact enough that truncation gives the floor of the root.
SqrtFrom[value \in Nat, r \in Nat] ==
    IF (r + 1) * (r + 1) > value THEN r ELSE SqrtFrom[value, r + 1]
\* Variant: the root is rounded to the nearest integer instead of truncated.
IntSqrtRounded(value) ==
    LET r == SqrtFrom[value, 0]
    IN  IF value - r * r > r THEN r + 1 ELSE r

IntSqrt(value) == SqrtFrom[value, 0]

\* Result of execute_instruction: the engine fields after the call, the
\* exception it raised ("none" when it returned), the address it computed
\* (NoAddr when none) and the address it indexed data_memory with.
NoAddr == -1
Returned(stk, mem, p, run) ==
    [stack |-> stk, mem |-> mem, pc |-> p, running |-> run,
     err |-> "none", addr |-> NoAddr, deref |-> NoAddr]
Raised(e, stk, mem, p, a) ==
    [stack |-> stk, mem |-> mem, pc |-> p, running |-> TRUE,
     err |-> e, addr |-> a, deref |-> NoAddr]

Top(stk) == stk[Len(stk)]
Pop(stk) == SubSeq(stk, 1, Len(stk) - 1)

\* Variant: pc advanced by one byte instead of the instruction width.
ExecLoadConstOneByte(operand, stk, mem, p) ==
    Returned(Append(stk, operand), mem, p + 1, TRUE)

ExecLoadConst(operand, stk, mem, p) ==
    Returned(Append(stk, operand), mem, p + 2, TRUE)

\* Variant: the word that was read is cleared.
ExecReadMemDestructive(operand, stk, mem, p) ==
    IF stk = << >> THEN Raised("StackUnderflow", stk, mem, p, NoAddr)
    ELSE LET addr == Top(stk) + operand
             stk1 == Pop(stk)
         IN  IF 0 <= addr /\ addr < mem.size
             THEN [Returned(Append(stk1, MemAt(mem, addr)), MemSet(mem, addr, 0), p + 2, TRUE)
                     EXCEPT !.addr = addr, !.deref = addr]
             ELSE Raised("MemoryRange", stk1, mem, p, addr)

\* Variant: the offset operand is not added to the popped base.
ExecReadMemNoOffset(operand, stk, mem, p) ==
    IF stk = << >> THEN Raised("StackUnderflow", stk, mem, p, NoAddr)
    ELSE LET addr == Top(stk)
             stk1 == Pop(stk)
         IN  IF 0 <= addr /\ addr < mem.size
             THEN [Returned(Append(stk1, MemAt(mem, addr)), mem, p + 2, TRUE)
                     EXCEPT !.addr = addr, !.deref = addr]
             ELSE Raised("MemoryRange", stk1, mem, p, addr)

ExecReadMem(operand, stk, mem, p) ==
    IF stk = << >> THEN Raised("StackUnderflow", stk, mem, p, NoAddr)
    ELSE LET addr == Top(stk) + operand
             stk1 == Pop(stk)
         IN  IF 0 <= addr /\ addr < mem.size
             THEN [Returned(Append(stk1, MemAt(mem, addr)), mem, p + 2, TRUE)
                     EXCEPT !.addr = addr, !.deref = addr]
             ELSE Raised("MemoryRange", stk1, mem, p, addr)

\* Variant: the base address is read but left on the stack.
ExecWriteMemPeekBase(operand, stk, mem, p) ==
    IF stk = << >> THEN Raised("StackUnderflow", stk, mem, p, NoAddr)
    ELSE LET value == Top(stk)
             stk1  == Pop(stk)
         IN  IF stk1 = << >> THEN Raised("StackUnderflow", stk1, mem, p, NoAddr)
             ELSE LET addr == Top(stk1) + operand
                  IN  IF 0 <= addr /\ addr < mem.size
                      THEN [Returned(stk1, MemSet(mem, addr, value), p + 2, TRUE)
                              EXCEPT !.addr = addr, !.deref = addr]
                      ELSE Raised("MemoryRange", stk1, mem, p, addr)

\* Variant: pc is not advanced after the store.
ExecWriteMemNoAdvance(operand, stk, mem, p) ==
    IF stk = << >> THEN Raised("StackUnderflow", stk, mem, p, NoAddr)
    ELSE LET value == Top(stk)
             stk1  == Pop(stk)
         IN  IF stk1 = << >> THEN Raised("StackUnderflow", stk1, mem, p, NoAddr)
             ELSE LET addr == Top(stk1) + operand
                      stk2 == Pop(stk1)
                  IN  IF 0 <= addr /\ addr < mem.size
                      THEN [Returned(stk2, MemSet(mem, addr, value), p, TRUE)
                              EXCEPT !.addr = addr, !.deref = addr]
                      ELSE Raised("MemoryRange", stk2, mem, p, addr)

\* Variant: base popped first, value second.
ExecWriteMemSwapped(operand, stk, mem, p) ==
    IF stk = << >> THEN Raised("StackUnderflow", stk, mem, p, NoAddr)
    ELSE LET base == Top(stk)
             stk1 == Pop(stk)
         IN  IF stk1 = << >> THEN Raised("StackUnderflow", stk1, mem, p, NoAddr)
             ELSE LET addr == base + operand
                      value == Top(stk1)
                      stk2 == Pop(stk1)
                  IN  IF 0 <= addr /\ addr < mem.size
                      THEN [Returned(stk2, MemSet(mem, addr, value), p + 2, TRUE)
                              EXCEPT !.addr = addr, !.deref = addr]
                      ELSE Raised("MemoryRange", stk2, mem, p, addr)

ExecWriteMem(operand, stk, mem, p) ==
    IF stk = << >> THEN Raised("StackUnderflow", stk, mem, p, NoAddr)
    ELSE LET value == Top(stk)
             stk1  == Pop(stk)
         IN  IF stk1 = << >> THEN Raised("StackUnderflow", stk1, mem, p, NoAddr)
             ELSE LET addr == Top(stk1) + operand
                      stk2 == Pop(stk1)
                  IN  IF 0 <= addr /\ addr < mem.size
                      THEN [Returned(stk2, MemSet(mem, addr, value), p + 2, TRUE)
                              EXCEPT !.addr = addr, !.deref = addr]
                      ELSE Raised("MemoryRange", stk2, mem, p, addr)

\* Variant: pc is advanced before the address is checked.
ExecSqrtEarlyPc(operand, stk, mem, p) ==
    IF stk = << >> THEN Raised("StackUnderflow", stk, mem, p, NoAddr)
    ELSE LET value == Top(stk)
             stk1  == Pop(stk)
         IN  IF value < 0 THEN Raised("NegativeRadicand", stk1, mem, p, NoAddr)
             ELSE LET result == IntSqrt(value)
                  IN  IF 0 <= operand /\ operand < mem.size
                      THEN [Returned(stk1, MemSet(mem, operand, result), p + 5, TRUE)
                              EXCEPT !.addr = operand, !.deref = operand]
                      ELSE Raised("MemoryRange", stk1, mem, p + 5, operand)

\* Variant: the upper bound of the address check is inclusive.
ExecSqrtInclusive(operand, stk, mem, p) ==
    IF stk = << >> THEN Raised("StackUnderflow", stk, mem, p, NoAddr)
    ELSE LET value == Top(stk)
             stk1  == Pop(stk)
         IN  IF value < 0 THEN Raised("NegativeRadicand", stk1, mem, p, NoAddr)
             ELSE LET result == IntSqrt(value)
                  IN  IF 0 <= operand /\ operand <= mem.size
                      THEN [Returned(stk1, MemSet(mem, operand, result), p + 5, TRUE)
                              EXCEPT !.addr = operand, !.deref = operand]
                      ELSE Raised("MemoryRange", stk1, mem, p, operand)

ExecSqrt(operand, stk, mem, p) ==
    IF stk = << >> THEN Raised("StackUnderflow", stk, mem, p, NoAddr)
    ELSE LET value == Top(stk)
             stk1  == Pop(stk)
         IN  IF value < 0 THEN Raised("NegativeRadicand", stk1, mem, p, NoAddr)
             ELSE LET result == IntSqrt(value)
                  IN  IF 0 <= operand /\ operand < mem.size
                      THEN [Returned(stk1, MemSet(mem, operand, result), p + 5, TRUE)
                              EXCEPT !.addr = operand, !.deref = operand]
                      ELSE Raised("MemoryRange", stk1, mem, p, operand)

execute_instruction(opcode, operand, stk, mem, p) ==
    CASE opcode = 4 -> ExecLoadConst(operand, stk, mem, p)
      [] opcode = 7 -> ExecReadMem(operand, stk, mem, p)
      [] opcode = 2 -> ExecWriteMem(operand, stk, mem, p)
      [] opcode = 1 -> ExecSqrt(operand, stk, mem, p)
      [] OTHER      -> Returned(stk, mem, p, FALSE)

\* ---------------------------------------------------------------- inputs
Req(op, value) == [op |-> op, value |-> value]

SeqsUpTo(S, n) == UNION {[1..k -> S] : k \in 0..n}

RECURSIVE Flatten(_)
Flatten(ss) == IF ss = << >> THEN << >> ELSE Head(ss) \o Flatten(Tail(ss))

\* Requests for the generic programs: in-range and out-of-range operands of
\* every mnemonic, and one mnemonic the opcode table does not know.
GenericReqs ==
    { Req("load_const", 3), Req("load_const", 100), Req("load_const", 8191),
      Req("load_const", 8192),
      Req("read_mem", 0), Req("read_mem", 2047),
      Req("write_mem", 0), Req("write_mem", 2048),
      Req("sqrt", 50), Req("sqrt", 65536),
      Req("nop", 0) }

\* Operands of the write/read scenarios.
ScenBases   == {0, 100, 8191}
ScenValues  == {0, 3, 8191}
ScenOffsets == {0, 1, 2047}

WriteProgram(a, v, o) ==
    << Req("load_const", a), Req("load_const", v), Req("write_mem", o) >>
WriteReadProgram(a, v, o) ==
    WriteProgram(a, v, o) \o << Req("load_const", a), Req("read_mem", o) >>
ReadProgram(a, o) == << Req("load_const", a), Req("read_mem", o) >>
SqrtProgram(v, a) == << Req("load_const", v), Req("sqrt", a) >>

\* Radicands and target addresses of the square-root scenario.
ScenRadicands == {0, 3, 16, 8191}
ScenTargets   == {50, 65535}

ScenarioPrograms ==
    {WriteProgram(a, v, o) : a \in ScenBases, v \in ScenValues, o \in ScenOffsets}
    \cup {WriteReadProgram(a, v, o) : a \in ScenBases, v \in ScenValues, o \in ScenOffsets}
    \cup {ReadProgram(a, o) : a \in ScenBases, o \in ScenOffsets}
    \cup {SqrtProgram(v, a) : v \in ScenRadicands, a \in ScenTargets}

RequestLists == SeqsUpTo(GenericReqs, MaxInstr) \cup ScenarioPrograms

\* Binary files that did not come from the assembler: unknown opcodes (0, 3),
\* instructions cut short, operands the assembler would refuse, a non-zero
\* pad byte.
RawChunks ==
    { << 96 >>, << 0, 0 >>, << 128 >>,
      << 128, 128 >>, << 159, 255 >>, << 255, 255 >>, << 95, 255 >>,
      << 32, 0, 0, 50 >>, << 32, 1, 0, 0, 0 >>, << 63, 255, 255, 255, 255 >> }

RawFiles == {Flatten(cs) : cs \in SeqsUpTo(RawChunks, MaxChunks)}

\* Single instructions for the encode/decode round trip.
EncValues ==
    { -1, 0, 1, 255, 256, 2047, 2048, 8191, 8192, 65535, 65536,
      16777215, 16777216, 536870911, 536870912, 1073741823, 1073741824 }
EncInstrs == {Req(op, v) : op \in Mnemonics \cup {"nop"}, v \in EncValues}

\* ----------------------------------------------------------------- state
VARIABLES
    requests,     \* the program given to Assembler.assemble
    binfile,      \* the binary file on disk (output_file / program_file)
    asm_result,   \* what assemble returned: "True", "False", or "none" yet
    program,      \* UVMInterpreter.program
    data_memory,  \* UVMInterpreter.data_memory
    stack,        \* UVMInterpreter.stack
    pc,           \* UVMInterpreter.pc
    running,      \* UVMInterpreter.running
    ctl,          \* where the toolchain is
    halt,         \* how the last run() left its loop
    err,          \* the exception the last execute_instruction raised
    addr,         \* the address the last execute_instruction computed
    deref,        \* the address it indexed data_memory with
    lastop,       \* the (opcode, operand) last handed to execute_instruction
    steps,        \* execute_instruction calls made by the current run()
    executed,     \* opcodes of the instructions that executed successfully
    runs,         \* run() invocations so far
    instr,        \* round trip: the instruction encoded
    enc,          \* round trip: what assemble_instruction gave
    dec           \* round trip: what decode_instruction gave

vars == << requests, binfile, asm_result, program, data_memory, stack, pc,
           running, ctl, halt, err, addr, deref, lastop, steps, executed, runs,
           instr, enc, dec >>

asmVars  == << requests, binfile, asm_result >>
engVars  == << program, data_memory, stack, pc, running >>
histVars == << halt, err, addr, deref, lastop, steps, executed, runs >>
rtVars   == << instr, enc, dec >>

NoOp == [opcode |-> 0, operand |-> 0]

\* The engine as UVMInterpreter.__init__ leaves it, nothing run yet.
EngineInit ==
    /\ program = << >>
    /\ data_memory = InitMemory
    /\ stack = << >>
    /\ pc = 0
    /\ running = TRUE
    /\ halt = "none"
    /\ err = "none"
    /\ addr = NoAddr
    /\ deref = NoAddr
    /\ lastop = NoOp
    /\ steps = 0
    /\ executed = << >>
    /\ runs = 0

RoundTripIdle ==
    /\ instr = Req("nop", 0)
    /\ enc = NoneResult
    /\ dec = NoneNone

\* Nothing assembled yet, the engine freshly constructed.
Init ==
    /\ EngineInit
    /\ RoundTripIdle
    /\ ctl = "start"
    /\ requests = << >>
    /\ binfile = NoFile
    /\ asm_result = "none"

\* Assembler.assemble(program, output_file) on a request list.
Assemble ==
    /\ ctl = "start"
    /\ \E prog \in RequestLists :
          LET out == AssembleOutcome(prog, binfile)
          IN  /\ requests' = prog
              /\ binfile' = out.file
              /\ asm_result' = out.ret
    /\ ctl' = "assembled"
    /\ UNCHANGED << engVars, histVars, rtVars >>

\* A binary file that did not come from the assembler is put on disk.
ForeignFile ==
    /\ ctl = "start"
    /\ \E bs \in RawFiles : binfile' = File(bs)
    /\ ctl' = "assembled"
    /\ UNCHANGED << requests, asm_result, engVars, histVars, rtVars >>

\* UVMInterpreter.load_program(program_file)
LoadProgram ==
    /\ ctl = "assembled"
    /\ binfile.written
    /\ program' = binfile.bytes
    /\ ctl' = "ready"
    /\ UNCHANGED << asmVars, data_memory, stack, pc, running, histVars, rtVars >>

\* run() is entered (again).
Run ==
    /\ ctl \in {"ready", "halted"}
    /\ runs < MaxRuns
    /\ ctl' = "loop"
    /\ runs' = runs + 1
    /\ steps' = 0
    /\ halt' = "none"
    /\ err' = "none"
    /\ addr' = NoAddr
    /\ deref' = NoAddr
    /\ UNCHANGED << asmVars, engVars, lastop, executed, rtVars >>

LoopCondition == running /\ pc < Len(program)

\* while-condition false: run() returns.
LoopExit ==
    /\ ctl = "loop"
    /\ ~LoopCondition
    /\ ctl' = "halted"
    /\ halt' = "end_of_program"
    /\ UNCHANGED << asmVars, engVars, err, addr, deref, lastop, steps, executed, runs, rtVars >>

\* decode_instruction gave (None, None): break.
DecodeHalt ==
    /\ ctl = "loop"
    /\ LoopCondition
    /\ decode_instruction(program, pc).none
    /\ ctl' = "halted"
    /\ halt' = "decode_none"
    /\ UNCHANGED << asmVars, engVars, err, addr, deref, lastop, steps, executed, runs, rtVars >>

\* One loop iteration whose execute_instruction returns.
ExecuteOk ==
    /\ ctl = "loop"
    /\ LoopCondition
    /\ LET d == decode_instruction(program, pc)
       IN  /\ ~d.none
           /\ LET r == execute_instruction(d.opcode, d.operand, stack, data_memory, pc)
              IN  /\ r.err = "none"
                  /\ stack' = r.stack
                  /\ data_memory' = r.mem
                  /\ pc' = r.pc
                  /\ running' = r.running
                  /\ err' = r.err
                  /\ addr' = r.addr
                  /\ deref' = r.deref
                  /\ lastop' = [opcode |-> d.opcode, operand |-> d.operand]
    /\ steps' = steps + 1
    /\ executed' = Append(executed, decode_instruction(program, pc).opcode)
    /\ UNCHANGED << asmVars, program, ctl, halt, runs, rtVars >>

\* One loop iteration whose execute_instruction raises: the except clause
\* prints and breaks.
ExecuteFail ==
    /\ ctl = "loop"
    /\ LoopCondition
    /\ LET d == decode_instruction(program, pc)
       IN  /\ ~d.none
           /\ LET r == execute_instruction(d.opcode, d.operand, stack, data_memory, pc)
              IN  /\ r.err # "none"
                  /\ stack' = r.stack
                  /\ data_memory' = r.mem
                  /\ pc' = r.pc
                  /\ running' = r.running
                  /\ err' = r.err
                  /\ addr' = r.addr
                  /\ deref' = r.deref
                  /\ lastop' = [opcode |-> d.opcode, operand |-> d.operand]
    /\ steps' = steps + 1
    /\ ctl' = "halted"
    /\ halt' = "exception"
    /\ UNCHANGED << asmVars, program, executed, runs, rtVars >>

Next ==
    \/ Assemble
    \/ ForeignFile
    \/ LoadProgram
    \/ Run
    \/ LoopExit
    \/ DecodeHalt
    \/ ExecuteOk
    \/ ExecuteFail

Spec == Init /\ [][Next]_vars

\* run() is one synchronous call: once entered, its loop keeps stepping.
FairSpec == Spec /\ WF_vars(LoopExit \/ DecodeHalt \/ ExecuteOk \/ ExecuteFail)

\* ------------------------------------------------- round-trip specification
InitRoundTrip ==
    /\ EngineInit
    /\ requests = << >>
    /\ binfile = NoFile
    /\ asm_result = "none"
    /\ ctl = "encode"
    /\ instr \in EncInstrs
    /\ enc = NoneResult
    /\ dec = NoneNone

\* assemble_instruction(instr)
EncodeOne ==
    /\ ctl = "encode"
    /\ enc' = assemble_instruction(instr)
    /\ ctl' = "encoded"
    /\ UNCHANGED << asmVars, engVars, histVars, instr, dec >>

\* The returned bytes become the program and are decoded at pc = 0.
DecodeOne ==
    /\ ctl = "encoded"
    /\ enc.kind = "bytes"
    /\ program' = enc.bytes
    /\ dec' = decode_instruction(enc.bytes, pc)
    /\ ctl' = "decoded"
    /\ UNCHANGED << asmVars, data_memory, stack, pc, running, histVars, instr, enc >>

NextRoundTrip == EncodeOne \/ DecodeOne

SpecRoundTrip == InitRoundTrip /\ [][NextRoundTrip]_vars

\* ================================================================ claims
\* What section 4.1 documents for each mnemonic.
DocOpcode(op) ==
    CASE op = "sqrt" -> 1 [] op = "write_mem" -> 2
      [] op = "load_const" -> 4 [] op = "read_mem" -> 7
DocWidth(op) == IF op = "sqrt" THEN 5 ELSE 2
DocMax(op) ==
    CASE op = "sqrt" -> 1073741823 [] op = "write_mem" -> 2047
      [] op = "load_const" -> 8191 [] op = "read_mem" -> 2047
InDocRange(i) == 0 <= i.value /\ i.value <= DocMax(i.op)

\* C1: for every mnemonic and every operand in its accepted range, encoding
\* and then decoding at offset 0 recovers the same (opcode ID, operand), and
\* the encoding is 2 bytes long (5 for sqrt).
C1_RoundTrip ==
    (ctl = "decoded" /\ instr.op \in Mnemonics /\ InDocRange(instr))
        => /\ ~dec.none
           /\ dec.opcode = DocOpcode(instr.op)
           /\ dec.operand = instr.value
           /\ Len(enc.bytes) = DocWidth(instr.op)

\* C2: the encoder accepts an operand exactly when it lies in the documented
\* range of its mnemonic; a rejection is an error and yields no bytes.
C2_AcceptsExactlyDocumentedRange ==
    (ctl \in {"encoded", "decoded"} /\ instr.op \in Mnemonics)
        => /\ (enc.kind = "bytes") <=> InDocRange(instr)
           /\ ~InDocRange(instr) => (enc.kind = "ValueError" /\ enc.bytes = << >>)
           /\ InDocRange(instr) => Len(enc.bytes) = DocWidth(instr.op)

C2_Witness ==
    /\ ctl = "encoded"
    /\ instr = Req("sqrt", 1073741824)
    /\ enc.kind = "ValueError"

\* C3: assembly is all-or-nothing: when some instruction fails to encode,
\* assemble returns False and no file is written; otherwise it returns True
\* and the file holds the encodings of all instructions, in order.
FailsToEncode(r) == assemble_instruction(r).kind # "bytes"
AllEncodings(prog) == Flatten([i \in 1..Len(prog) |-> assemble_instruction(prog[i]).bytes])

C3_AllOrNothing ==
    (asm_result # "none")
        => IF \E i \in 1..Len(requests) : FailsToEncode(requests[i])
           THEN asm_result = "False" /\ ~binfile.written /\ binfile.bytes = << >>
           ELSE /\ asm_result = "True"
                /\ binfile.written
                /\ binfile.bytes = AllEncodings(requests)

C3_Witness ==
    /\ asm_result = "False"
    /\ Len(requests) = 3
    /\ ~FailsToEncode(requests[1])
    /\ ~FailsToEncode(requests[2])
    /\ FailsToEncode(requests[3])
    /\ ~binfile.written

\* C4: an instruction that fails (stack underflow, address out of range,
\* negative radicand) stops the run at once with pc still at the failing
\* instruction and memory as the last successful instruction left it;
\* read_mem on an empty stack at pc 0 stops with pc = 0 and memory all zero.
InMemory(a) == 0 <= a /\ a < 65536
MustFail(d, stk) ==
    \/ d.opcode = 7 /\ (Len(stk) < 1 \/ ~InMemory(stk[Len(stk)] + d.operand))
    \/ d.opcode = 2 /\ (Len(stk) < 2 \/ ~InMemory(stk[Len(stk) - 1] + d.operand))
    \/ d.opcode = 1 /\ (Len(stk) < 1 \/ stk[Len(stk)] < 0 \/ ~InMemory(d.operand))

FailingStep ==
    /\ ctl = "loop"
    /\ \/ err' # "none"
       \/ /\ LoopCondition
          /\ ~decode_instruction(program, pc).none
          /\ MustFail(decode_instruction(program, pc), stack)

C4_FailureKeepsPcAndMemory ==
    /\ [][FailingStep => /\ ctl' = "halted"
                         /\ halt' = "exception"
                         /\ err' # "none"
                         /\ pc' = pc
                         /\ data_memory' = data_memory]_vars
    /\ []((requests = << Req("read_mem", 0) >> /\ ctl = "halted")
            => /\ halt = "exception"
               /\ err = "StackUnderflow"
               /\ pc = 0
               /\ \A a \in 0..65535 : MemAt(data_memory, a) = 0)

C4_Witness ==
    /\ ctl = "halted"
    /\ halt = "exception"
    /\ pc > 0
    /\ DOMAIN data_memory.words # {}

\* C5: once the engine has halted it never changes again: invoking run on
\* it once more leaves pc, stack and memory unchanged.
HasHalted == ctl = "halted" \/ runs >= 2

C5_HaltedIsTerminal ==
    [][HasHalted => /\ pc' = pc
                    /\ stack' = stack
                    /\ data_memory' = data_memory]_vars

\* C6: every run terminates, after at most len(program)/2 executed
\* instructions.
C6_TerminatesWithinHalfLength ==
    /\ [](ctl \in {"loop", "halted"} => 2 * steps <= Len(program))
    /\ (ctl = "loop") ~> (ctl = "halted")

C6_Witness ==
    /\ ctl = "halted"
    /\ steps >= 2
    /\ 2 * steps = Len(program)

\* C7: every memory read and write uses an address in [0, 65536); an
\* address outside it is never used as an index but gives a memory-range
\* failure; the memory array always has exactly 65536 words.
C7_AddressesInRange ==
    /\ data_memory.size = 65536
    /\ DOMAIN data_memory.words \subseteq 0..65535
    /\ deref # NoAddr => InMemory(deref)
    /\ (addr # NoAddr /\ ~InMemory(addr))
          => (deref = NoAddr /\ err = "MemoryRange" /\ halt = "exception")

C7_Witness ==
    /\ err = "MemoryRange"
    /\ addr = 65536
    /\ deref = NoAddr

\* C8: a decode that finds the end of the program, an instruction cut short
\* (fewer bytes left than the width of the opcode in the first byte) or an
\* opcode other than 1, 2, 4, 7 halts the run with no error, and pc, stack
\* and memory stay as they were.
HaltingDecode(prog, p) ==
    \/ p = Len(prog)
    \/ /\ p < Len(prog)
       /\ LET id == prog[p + 1] \div 32
          IN  \/ id \notin {1, 2, 4, 7}
              \/ Len(prog) - p < (IF id = 1 THEN 5 ELSE 2)

C8_DecodeHaltIsClean ==
    [][(ctl = "loop" /\ running /\ HaltingDecode(program, pc))
          => /\ ctl' = "halted"
             /\ halt' \in {"end_of_program", "decode_none"}
             /\ err' = "none"
             /\ pc' = pc
             /\ stack' = stack
             /\ data_memory' = data_memory]_vars

C8_Witness ==
    /\ ctl = "halted"
    /\ halt = "decode_none"
    /\ pc > 0
    /\ Len(program) - pc = 4
    /\ stack # << >>

\* C9: running [load_const a, load_const v, write_mem o] ends with
\* memory[a + o] = v, the stack empty, pc at the program length and a clean
\* end-of-program halt.
IsWriteProgram(rs) ==
    /\ Len(rs) = 3
    /\ rs[1].op = "load_const"
    /\ rs[2].op = "load_const"
    /\ rs[3].op = "write_mem"

C9_WriteStoresTopAtBasePlusOffset ==
    (IsWriteProgram(requests) /\ ctl = "halted")
        => /\ MemAt(data_memory, requests[1].value + requests[3].value) = requests[2].value
           /\ stack = << >>
           /\ pc = Len(program)
           /\ Len(program) = 6
           /\ halt = "end_of_program"
           /\ err = "none"

C9_Witness ==
    /\ requests = WriteProgram(100, 3, 0)
    /\ ctl = "halted"
    /\ MemAt(data_memory, 100) = 3

\* C10: running [load_const a, load_const v, write_mem o, load_const a,
\* read_mem o] ends with the stack holding exactly v; read_mem at an address
\* never written pushes 0.
IsWriteReadProgram(rs) ==
    /\ Len(rs) = 5
    /\ IsWriteProgram(SubSeq(rs, 1, 3))
    /\ rs[4] = rs[1]
    /\ rs[5] = Req("read_mem", rs[3].value)

IsReadProgram(rs) ==
    /\ Len(rs) = 2
    /\ rs[1].op = "load_const"
    /\ rs[2].op = "read_mem"

C10_ReadReturnsLastWrite ==
    /\ (IsWriteReadProgram(requests) /\ ctl = "halted")
          => (stack = << requests[2].value >> /\ halt = "end_of_program")
    /\ (IsReadProgram(requests) /\ ctl = "halted")
          => (stack = << 0 >> /\ halt = "end_of_program")

C10_Witness ==
    /\ requests = WriteReadProgram(100, 3, 1)
    /\ ctl = "halted"
    /\ stack = << 3 >>

\* A loop iteration whose execute_instruction returned, for opcode id.
ExecutedStep(id) ==
    /\ ctl = "loop"
    /\ steps' = steps + 1
    /\ err' = "none"
    /\ lastop'.opcode = id

\* C11: a successful sqrt with operand a in [0, 65536) and popped value
\* v >= 0 stores in memory[a] the r with r*r <= v < (r+1)*(r+1), removes
\* exactly one stack element and advances pc by 5; [load_const 16, sqrt 50]
\* gives memory[50] = 4.
C11_SqrtStoresFloorRoot ==
    /\ [][ExecutedStep(1) =>
            LET v == stack[Len(stack)]
                a == lastop'.operand
                r == MemAt(data_memory', a)
            IN  /\ InMemory(a)
                /\ v >= 0
                /\ r >= 0
                /\ r * r <= v
                /\ v < (r + 1) * (r + 1)
                /\ stack' = SubSeq(stack, 1, Len(stack) - 1)
                /\ pc' = pc + 5]_vars
    /\ []((requests = SqrtProgram(16, 50) /\ ctl = "halted")
            => (MemAt(data_memory, 50) = 4 /\ halt = "end_of_program"))

C11_Witness ==
    /\ requests = SqrtProgram(8191, 65535)
    /\ ctl = "halted"
    /\ MemAt(data_memory, 65535) = 90
    /\ stack = << >>
    /\ pc = 7

\* C12 as stated: an entry with an unrecognized mnemonic yields no bytes and
\* no error; the assembly succeeds and the output is the concatenation of
\* the encodings of the recognized entries.
Recognized(rs) == SelectSeq(rs, LAMBDA r : r.op \in Mnemonics)
HasUnrecognized(rs) == \E i \in 1..Len(rs) : rs[i].op \notin Mnemonics
RecognizedInRange(rs) ==
    \A i \in 1..Len(rs) : rs[i].op \in Mnemonics => InDocRange(rs[i])

C12_UnknownMnemonicSkipped ==
    (asm_result # "none" /\ HasUnrecognized(requests) /\ RecognizedInRange(requests))
        => /\ asm_result = "True"
           /\ binfile.written
           /\ binfile.bytes = AllEncodings(Recognized(requests))

\* C12 amended: an entry with an unrecognized mnemonic makes the whole
\* assembly fail: assemble returns False and writes no output file.
C12_UnknownMnemonicFailsAssembly ==
    (asm_result # "none" /\ HasUnrecognized(requests))
        => /\ asm_result = "False"
           /\ ~binfile.written
           /\ ctl = "assembled"

C12_Witness ==
    /\ asm_result = "False"
    /\ Len(requests) = 3
    /\ requests[1].op \in Mnemonics
    /\ requests[2].op \notin Mnemonics
    /\ requests[3].op \in Mnemonics
    /\ RecognizedInRange(requests)
    /\ ~binfile.written

\* C14: pc starts at 0, grows by exactly the width of the instruction after
\* each successful step (2 for load_const, read_mem, write_mem; 5 for sqrt),
\* changes in no other way, never decreases and never exceeds the program
\* length.
SuccessfulStep == ctl = "loop" /\ steps' = steps + 1 /\ err' = "none"

C14_PcAdvancesByWidth ==
    /\ [](ctl \in {"start", "assembled", "ready"} => pc = 0)
    /\ [](ctl \in {"loop", "halted"} => (0 <= pc /\ pc <= Len(program)))
    /\ [][/\ pc' >= pc
          /\ SuccessfulStep
               => /\ lastop'.opcode \in {1, 2, 4, 7}
                  /\ lastop'.opcode = program[pc + 1] \div 32
                  /\ pc' = pc + (IF lastop'.opcode = 1 THEN 5 ELSE 2)
          /\ ~SuccessfulStep => pc' = pc]_vars

C14_Witness ==
    /\ ctl = "halted"
    /\ pc = Len(program)
    /\ pc = 9
    /\ executed = << 4, 1, 4 >>

\* C15: memory is changed only by write_mem and sqrt: load_const and
\* read_mem leave every word unchanged; a successful write_mem or sqrt
\* changes at most the word at its target address.
Touched(m1, m2) == {a \in (DOMAIN m1.words) \cup (DOMAIN m2.words) : MemAt(m1, a) # MemAt(m2, a)}

C15_MemoryFrame ==
    [][/\ data_memory'.size = data_memory.size
       /\ Touched(data_memory, data_memory') # {}
            => /\ SuccessfulStep
               /\ \/ /\ lastop'.opcode = 2
                     /\ Len(stack) >= 2
                     /\ Touched(data_memory, data_memory')
                          = {stack[Len(stack) - 1] + lastop'.operand}
                  \/ /\ lastop'.opcode = 1
                     /\ Touched(data_memory, data_memory') = {lastop'.operand}
       /\ (ExecutedStep(4) \/ ExecutedStep(7))
            => Touched(data_memory, data_memory') = {}]_vars

C15_Witness ==
    /\ ctl = "halted"
    /\ executed = << 4, 4, 2, 4, 7 >>
    /\ stack = << 3 >>
    /\ Cardinality(DOMAIN data_memory.words) = 1

\* C16: for a list of in-range requests the assembled buffer is the
\* concatenation of the encodings in order (2 bytes per load_const, read_mem,
\* write_mem, 5 per sqrt); decoding from offset 0 and advancing by each width
\* gives the same opcode IDs at the same cumulative offsets and ends exactly
\* at the buffer length.
RECURSIVE OffsetOf(_, _)
OffsetOf(rs, i) == IF i <= 1 THEN 0 ELSE OffsetOf(rs, i - 1) + DocWidth(rs[i - 1].op)

AllInRange(rs) == \A i \in 1..Len(rs) : rs[i].op \in Mnemonics /\ InDocRange(rs[i])

C16_BoundariesSurviveAssembly ==
    (asm_result # "none" /\ AllInRange(requests))
        => /\ asm_result = "True"
           /\ binfile.written
           /\ Len(binfile.bytes) = OffsetOf(requests, Len(requests) + 1)
           /\ \A i \in 1..Len(requests) :
                LET off == OffsetOf(requests, i)
                    d   == decode_instruction(binfile.bytes, off)
                IN  /\ off < Len(binfile.bytes)
                    /\ ~d.none
                    /\ d.opcode = DocOpcode(requests[i].op)
                    /\ SubSeq(binfile.bytes, off + 1, off + DocWidth(requests[i].op))
                         = assemble_instruction(requests[i]).bytes

C16_Witness ==
    /\ asm_result = "True"
    /\ Len(requests) = 3
    /\ requests[1].op = "sqrt"
    /\ requests[2].op = "load_const"
    /\ requests[3].op = "sqrt"
    /\ Len(binfile.bytes) = 12

\* C17: in every reachable state every stack element and every memory word
\* is an integer in [0, 8191]; the negative-radicand failure never happens.
C17_ValuesFitThirteenBits ==
    /\ \A i \in 1..Len(stack) : 0 <= stack[i] /\ stack[i] <= 8191
    /\ \A a \in DOMAIN data_memory.words :
          0 <= data_memory.words[a] /\ data_memory.words[a] <= 8191
    /\ err # "NegativeRadicand"

C17_Witness ==
    /\ ctl = "halted"
    /\ \E a \in DOMAIN data_memory.words : data_memory.words[a] = 8191
    /\ stack # << >>
    /\ stack[Len(stack)] = 8191

\* C18: the address computed by read_mem and write_mem always lies in
\* [0, 16382], so they never fail with a memory-range error; that error comes
\* only from sqrt with an operand of 65536 or more, and only sqrt writes a
\* memory word at an address above 16382.
C18_ReadWriteAddressBound ==
    /\ []((lastop.opcode \in {2, 7} /\ addr # NoAddr) => (0 <= addr /\ addr <= 16382))
    /\ [](err = "MemoryRange" => (lastop.opcode = 1 /\ lastop.operand >= 65536))
    /\ [][\A a \in DOMAIN data_memory'.words :
             (a > 16382 /\ (a \notin DOMAIN data_memory.words
                            \/ MemAt(data_memory', a) # MemAt(data_memory, a)))
               => ExecutedStep(1)]_vars

C18_Witness ==
    /\ lastop.opcode = 7
    /\ addr = 16382
    /\ err = "none"
    /\ stack = << 0 >>

\* C19: while every instruction so far has succeeded, the stack depth equals
\* (load_const executed) - 2 * (write_mem executed) - (sqrt executed);
\* read_mem leaves the depth unchanged; the depth is never negative; an
\* instruction that needs more operands than the depth (1 for read_mem and
\* sqrt, 2 for write_mem) fails with stack underflow.
CountOf(id) == Cardinality({i \in 1..Len(executed) : executed[i] = id})
NoFailureYet == runs <= 1 /\ halt # "exception"
Needs(id) == CASE id = 2 -> 2 [] id = 7 -> 1 [] id = 1 -> 1 [] OTHER -> 0

C19_StackDepthAccounting ==
    /\ [](NoFailureYet => Len(stack) = CountOf(4) - 2 * CountOf(2) - CountOf(1))
    /\ [](Len(stack) >= 0)
    /\ [][/\ ExecutedStep(7) => Len(stack') = Len(stack)
          /\ (/\ ctl = "loop"
              /\ LoopCondition
              /\ ~decode_instruction(program, pc).none
              /\ Needs(decode_instruction(program, pc).opcode) > Len(stack))
               => /\ err' = "StackUnderflow"
                  /\ halt' = "exception"
                  /\ executed' = executed
                  /\ pc' = pc
                  /\ data_memory' = data_memory]_vars

C19_Witness ==
    /\ ctl = "halted"
    /\ err = "StackUnderflow"
    /\ lastop.opcode = 2
    /\ executed = << 4, 7 >>
    /\ stack = << >>

====
